---- MODULE Spec2Model ----
(***************************************************************************)
(* Model of the intrusive shared pointer (IntrusiveShp.hpp) and of the     *)
(* free list built on it (IntrusiveShpFreeList.hpp, src/unnamed/part_000). *)
(*                                                                         *)
(* src/IntrusiveShp.hpp holds two definitions of class Shp:                *)
(*   ver = 1 : lines   1..246 (operator= increments first; templated move  *)
(*             assignment compares the two pointers)                       *)
(*   ver = 2 : lines 248..524 (operator= decrements first)                 *)
(* A build uses one of them; Init chooses which, and it never changes.     *)
(*                                                                         *)
(* Every operation is a chain of steps of one thread; pc[t] is the         *)
(* thread's position and frame[t] its locals.  A step is one atomic        *)
(* access to shared memory (fetch_add, fetch_sub, the mutex, the hook)     *)
(* together with the thread-local statements that precede it.              *)
(***************************************************************************)
EXTENDS Integers, Naturals, Sequences, FiniteSets, TLC

VARIABLES ver, kind, active,
          p_, live, refcnt_, destroyed, hooks,
          anchor_, u_, avail_, mtx_,
          pc, frame, ub, aborted

vars == <<ver, kind, active, p_, live, refcnt_, destroyed, hooks,
          anchor_, u_, avail_, mtx_, pc, frame, ub, aborted>>

(* ---------------------------------------------------------------- sets *)
NULL    == "null"
UNINIT  == "uninit"
Objs    == {"A", "B"}
Handles == {"h1", "h2", "h3"}
Pools   == {"P", "Q"}
Threads == {"t1", "t2", "t3"}

(* Static element type of each handle: Shp<Base> or Shp<Derived>.  All     *)
(* objects are of the derived type, so every handle can alias every object.*)
htype == [h \in Handles |-> IF h = "h3" THEN "Derived" ELSE "Base"]

(* Shp<T> = Shp<U> compiles iff U* converts to T*.                          *)
Convertible(l, r) == htype[l] = htype[r] \/ (htype[l] = "Base" /\ htype[r] = "Derived")

(* -------------------------------------------------------------- bounds *)
MaxCnt     == 3     \* operations that add a share start only below this count
MaxDebt    == 1     \* operations that drop a share start only above -MaxDebt
GarbageMax == 2     \* values a read of freed memory may yield: 0..GarbageMax
HookCap    == 2     \* hooks[o] counts 0, 1, "2 or more"
MaxAvail   == 2     \* put() of an arbitrary pointer starts only below this avail_

Garbage == 0..GarbageMax

(* ------------------------------------------------- ShpBase (pure parts) *)
(* a fetch_add that adds a share too many                                  *)
fetch_add_Twice(c) == c + 2

(* refcnt_.fetch_add(1): the stored value after the call                   *)
fetch_add(c) == c + 1

(* a decrement whose store is lost                                         *)
fetch_sub_Lost(c) == c

(* a decrement by two                                                      *)
fetch_sub_Twice(c) == c - 2

(* refcnt_.fetch_sub(1): the stored value after the call                   *)
fetch_sub(c) == c - 1

(* a test that takes every decrement of a positive count for the last      *)
isLastRef_AnyPrior(rv) == rv >= 1

(* decRef: "if ( 1 == rv ) unmanage(Key())"                                *)
isLastRef(rv) == rv = 1

(* the free chain of pool q, followed from anchor_ through u_.next_, cut   *)
(* after Cardinality(Objs)+1 links so that a cyclic chain yields a finite  *)
(* sequence in which a node repeats                                        *)
RECURSIVE ChainFrom(_, _)
ChainFrom(n, k) ==
    IF n \notin Objs \/ k = 0 THEN <<>>
    ELSE <<n>> \o ChainFrom(u_[n], k - 1)

Chain(q) == ChainFrom(anchor_[q], Cardinality(Objs) + 1)

Queued(o) == \E q \in Pools : \E i \in 1..Len(Chain(q)) : Chain(q)[i] = o

(* number of live handles that alias o                                     *)
Aliases(o) == Cardinality({h \in Handles : live[h] /\ p_[h] = o})

(* ---------------------------------------------------------------- frame *)
(* objects no handle may alias: deleted, or parked in a free chain          *)
Gone == {o \in Objs : destroyed[o] \/ Queued(o)}

Snapshot == [cnt |-> refcnt_, p |-> p_, live |-> live, gone |-> Gone,
             chain |-> [q \in Pools |-> Chain(q)], avail |-> avail_]

NoSnapshot == [cnt |-> [o \in Objs |-> 0], p |-> [h \in Handles |-> NULL],
               live |-> [h \in Handles |-> FALSE], gone |-> {},
               chain |-> [q \in Pools |-> <<>>], avail |-> [q \in Pools |-> 0]]

(* locals of the operation a thread is executing; pre is the state the     *)
(* operation started in, fired the objects whose hook it has invoked       *)
NoFrame == [op |-> "none", l |-> NULL, r |-> NULL, obj |-> NULL, pool |-> NULL,
            old |-> NULL, rv |-> 0, ret |-> "idle", fired |-> {}, threw |-> FALSE,
            pre |-> NoSnapshot]

NewFrame(op, l, r) == [NoFrame EXCEPT !.op = op, !.l = l, !.r = r, !.pre = Snapshot]

(* a handle that an unfinished operation of another thread works on: a     *)
(* handle is not an atomic object, so two threads never use one at once    *)
InUse(t, h) == \E s \in active \ {t} : pc[s] # "idle" /\ h \in {frame[s].l, frame[s].r}

Idle(t) == t \in active /\ pc[t] = "idle" /\ ~aborted /\ ~ub

At(t, label) == t \in active /\ pc[t] = label /\ ~aborted

cfgvars  == <<ver, kind, active>>
poolvars == <<anchor_, u_, avail_, mtx_>>
objvars  == <<destroyed, hooks>>

(* one step of thread t: new position and new locals                       *)
Step(t, label, f) ==
    /\ pc' = [pc EXCEPT ![t] = label]
    /\ frame' = [frame EXCEPT ![t] = f]

(* ------------------------------------------------------ ShpBase::incRef *)
(* p->incRef().  On an object that was deleted the access is a use after   *)
(* free: the memory holds any value.  ub records that undefined behaviour  *)
(* was executed; the operations under way are followed to their end and    *)
(* no new one starts, as nothing can be said about the program after it.   *)
incRef(o) ==
    /\ IF destroyed[o]
       THEN \E g \in Garbage : refcnt_' = [refcnt_ EXCEPT ![o] = fetch_add(g)]
       ELSE refcnt_' = [refcnt_ EXCEPT ![o] = fetch_add(@)]
    /\ ub' = (ub \/ destroyed[o])

(* ------------------------------------------------------ ShpBase::decRef *)
(* p->decRef(): fetch_sub, then the hook if the prior value was 1; the     *)
(* thread continues at ret afterwards.  f is the caller's frame.           *)
decRef(t, o, ret, f) ==
    \E rv \in (IF destroyed[o] THEN Garbage ELSE {refcnt_[o]}) :
        /\ refcnt_' = [refcnt_ EXCEPT ![o] = fetch_sub(rv)]
        /\ ub' = (ub \/ destroyed[o])
        /\ Step(t, IF isLastRef(rv) THEN "unmanage" ELSE ret,
                [f EXCEPT !.obj = o, !.rv = rv, !.ret = ret])

(* an exception that leaves the operation with the mutex still locked     *)
Throw_KeepLock(t, f) ==
    /\ mtx_' = mtx_
    /\ Step(t, "done", [f EXCEPT !.threw = TRUE])
    /\ aborted' = (frame[t].op \in {"dtor", "pool_dtor"})
    /\ ub' = ub

(* an exception (std::bad_alloc from the link-field accessors) leaves the  *)
(* operation: unique_lock releases the mutex, and the operation ends       *)
(* there; out of a destructor, which is noexcept, it ends the program      *)
Throw(t, f) ==
    /\ mtx_' = [q \in Pools |-> IF mtx_[q] = t THEN NULL ELSE mtx_[q]]
    /\ Step(t, "done", [f EXCEPT !.threw = TRUE])
    /\ aborted' = (frame[t].op \in {"dtor", "pool_dtor"})
    /\ ub' = ub

(* ------------------------------------------------------- Shp: construct *)
(* Shp() : p_(nullptr)                                                     *)
DefaultConstruct(t, h) ==
    /\ Idle(t) /\ ~live[h] /\ ~InUse(t, h)
    /\ live' = [live EXCEPT ![h] = TRUE]
    /\ p_' = [p_ EXCEPT ![h] = NULL]
    /\ Step(t, "done", NewFrame("ctor_default", h, NULL))
    /\ UNCHANGED <<cfgvars, refcnt_, objvars, poolvars, ub, aborted>>

(* a raw pointer the caller may wrap: an object that exists and is not     *)
(* parked in a pool (a node is wrapped by get<T>() the first time)         *)
Wrappable(o) ==
    /\ ~destroyed[o] /\ ~Queued(o)
    /\ kind[o] = "node" => refcnt_[o] > 0

(* Shp(T *p) : p_(p)   -- the increment follows in CtorInc                 *)
ConstructRaw(t, h, o) ==
    /\ Idle(t) /\ ~live[h] /\ ~InUse(t, h)
    /\ Wrappable(o) /\ refcnt_[o] < MaxCnt
    /\ live' = [live EXCEPT ![h] = TRUE]
    /\ p_' = [p_ EXCEPT ![h] = o]
    /\ Step(t, "ctor_inc", NewFrame("ctor_raw", h, NULL))
    /\ UNCHANGED <<cfgvars, refcnt_, objvars, poolvars, ub, aborted>>

(* Shp(const Shp<U> &rhs, dummy_tag) : p_(rhs.get())                       *)
CopyFrom(t, h, r, op) ==
    /\ Idle(t) /\ ~live[h] /\ live[r] /\ ~InUse(t, h) /\ ~InUse(t, r)
    /\ Convertible(h, r)
    /\ p_[r] # NULL => refcnt_[p_[r]] < MaxCnt
    /\ live' = [live EXCEPT ![h] = TRUE]
    /\ p_' = [p_ EXCEPT ![h] = p_[r]]
    /\ Step(t, "ctor_inc", NewFrame(op, h, r))
    /\ UNCHANGED <<cfgvars, refcnt_, objvars, poolvars, ub, aborted>>

(* Shp(const Shp &rhs) and Shp(const Shp<U> &rhs)                          *)
CopyConstruct(t, h, r) == CopyFrom(t, h, r, "copy_ctor")

(* Shp(Shp &&rhs) and Shp(Shp<U> &&rhs) delegate with "Shp( rhs,           *)
(* dummy_tag() )": rhs is a named reference, an lvalue, so the overload    *)
(* taking const Shp<U> & is the one selected, and the source is copied     *)
MoveConstruct(t, h, r) == CopyFrom(t, h, r, "move_ctor")

(* "if ( p_ ) p_->incRef();" of the constructors                           *)
CtorInc(t) ==
    /\ At(t, "ctor_inc")
    /\ IF p_[frame[t].l] # NULL
       THEN incRef(p_[frame[t].l])
       ELSE UNCHANGED <<refcnt_, ub>>
    /\ Step(t, "done", frame[t])
    /\ UNCHANGED <<cfgvars, p_, live, objvars, poolvars, aborted>>

(* the operation returns to its caller                                     *)
Done(t) ==
    /\ At(t, "done")
    /\ Step(t, "idle", NoFrame)
    /\ UNCHANGED <<cfgvars, p_, live, refcnt_, objvars, poolvars, ub, aborted>>

(* ------------------------------------------------- Shp: copy assignment *)
(* body of operator=(const Shp<U> &rhs), entered by the copy assignment    *)
(* and by the move assignment of equal types                               *)
(*   ver 1: auto old = p_; p_ = rhs.get();        then Asg1Inc, Asg1Dec    *)
(*   ver 2: nothing before the decrement               Asg2Dec, Asg2Inc    *)
AssignFrom(t, l, r, op) ==
    /\ Idle(t) /\ live[l] /\ live[r] /\ ~InUse(t, l) /\ ~InUse(t, r)
    /\ Convertible(l, r)
    /\ p_[r] # NULL => refcnt_[p_[r]] < MaxCnt
    /\ p_[l] # NULL => refcnt_[p_[l]] > -MaxDebt
    /\ IF ver = 1
       THEN /\ p_' = [p_ EXCEPT ![l] = p_[r]]
            /\ Step(t, "asg1_inc", [NewFrame(op, l, r) EXCEPT !.old = p_[l]])
       ELSE /\ UNCHANGED p_
            /\ Step(t, "asg2_dec", NewFrame(op, l, r))
    /\ UNCHANGED <<cfgvars, live, refcnt_, objvars, poolvars, ub, aborted>>

(* Shp & operator=(const Shp &rhs) { return operator=<T>(rhs); } and the   *)
(* template it forwards to                                                 *)
CopyAssign(t, l, r) == AssignFrom(t, l, r, "copy_assign")

(* ver 1: if ( (p_ = rhs.get()) ) p_->incRef();                            *)
Asg1Inc(t) ==
    /\ At(t, "asg1_inc")
    /\ IF p_[frame[t].l] # NULL
       THEN incRef(p_[frame[t].l])
       ELSE UNCHANGED <<refcnt_, ub>>
    /\ Step(t, "asg1_dec", frame[t])
    /\ UNCHANGED <<cfgvars, p_, live, objvars, poolvars, aborted>>

(* ver 1: if ( old ) old->decRef();                                        *)
Asg1Dec(t) ==
    /\ At(t, "asg1_dec")
    /\ IF frame[t].old # NULL
       THEN decRef(t, frame[t].old, "done", frame[t])
       ELSE UNCHANGED <<refcnt_, ub>> /\ Step(t, "done", frame[t])
    /\ UNCHANGED <<cfgvars, p_, live, objvars, poolvars, aborted>>

(* ver 2: if ( p_ ) p_->decRef();                                          *)
Asg2Dec(t) ==
    /\ At(t, "asg2_dec")
    /\ IF p_[frame[t].l] # NULL
       THEN decRef(t, p_[frame[t].l], "asg2_inc", frame[t])
       ELSE UNCHANGED <<refcnt_, ub>> /\ Step(t, "asg2_inc", frame[t])
    /\ UNCHANGED <<cfgvars, p_, live, objvars, poolvars, aborted>>

(* ver 2: if ( (p_ = rhs.get()) ) p_->incRef();                            *)
Asg2Inc(t) ==
    /\ At(t, "asg2_inc")
    /\ p_' = [p_ EXCEPT ![frame[t].l] = p_[frame[t].r]]
    /\ IF p_[frame[t].r] # NULL
       THEN incRef(p_[frame[t].r])
       ELSE UNCHANGED <<refcnt_, ub>>
    /\ Step(t, "done", frame[t])
    /\ UNCHANGED <<cfgvars, live, objvars, poolvars, aborted>>

(* ------------------------------------------------- Shp: move assignment *)
(* h1 = std::move(h2).                                                     *)
(* Equal element types select Shp & operator=(Shp &&rhs), which is         *)
(* "return operator=<T>(rhs);": rhs is an lvalue there, so the call        *)
(* resolves to operator=(const Shp<U> &), the copy assignment.             *)
(* Different element types select the template operator=(Shp<U> &&rhs):    *)
(* Mva1Cmp in ver 1, Mva2Dec in ver 2.                                     *)
MoveAssign(t, l, r) ==
    IF htype[l] = htype[r]
    THEN AssignFrom(t, l, r, "move_assign")
    ELSE /\ Idle(t) /\ live[l] /\ live[r] /\ ~InUse(t, l) /\ ~InUse(t, r)
         /\ Convertible(l, r)
         /\ p_[l] # NULL => refcnt_[p_[l]] > -MaxDebt
         /\ Step(t, IF ver = 1 THEN "mva1_cmp" ELSE "mva2_dec", NewFrame("move_assign_t", l, r))
         /\ UNCHANGED <<cfgvars, p_, live, refcnt_, objvars, poolvars, ub, aborted>>

(* ver 1: if ( (p = get()) != (p_ = rhs.get()) ) { if ( p ) p->decRef();   *)
(* The two operands of != are indeterminately sequenced: get() reads p_    *)
(* before or after the right operand has stored into it.                   *)
Mva1Cmp(t) ==
    /\ At(t, "mva1_cmp")
    /\ LET l == frame[t].l
           r == frame[t].r
       IN  /\ p_' = [p_ EXCEPT ![l] = p_[r]]
           /\ \E p \in {p_[l], p_[r]} :      \* left operand first, or right
                IF p # p_[r]
                THEN IF p # NULL
                     THEN decRef(t, p, "mva_clear", frame[t])
                     ELSE UNCHANGED <<refcnt_, ub>> /\ Step(t, "mva_clear", frame[t])
                ELSE UNCHANGED <<refcnt_, ub>> /\ Step(t, "done", frame[t])
    /\ UNCHANGED <<cfgvars, live, objvars, poolvars, aborted>>

(* ver 1: rhs.p_ = nullptr;                                                *)
MvaClear(t) ==
    /\ At(t, "mva_clear")
    /\ p_' = [p_ EXCEPT ![frame[t].r] = NULL]
    /\ Step(t, "done", frame[t])
    /\ UNCHANGED <<cfgvars, live, refcnt_, objvars, poolvars, ub, aborted>>

(* ver 2: if ( p_ ) p_->decRef();                                          *)
Mva2Dec(t) ==
    /\ At(t, "mva2_dec")
    /\ IF p_[frame[t].l] # NULL
       THEN decRef(t, p_[frame[t].l], "mva2_take", frame[t])
       ELSE UNCHANGED <<refcnt_, ub>> /\ Step(t, "mva2_take", frame[t])
    /\ UNCHANGED <<cfgvars, p_, live, objvars, poolvars, aborted>>

(* ver 2: p_ = rhs.get(); rhs.p = nullptr;   ("rhs.p" names no member and  *)
(* is read as rhs.p_, the only reading under which the template builds)    *)
Mva2Take(t) ==
    /\ At(t, "mva2_take")
    /\ p_' = [p_ EXCEPT ![frame[t].l] = p_[frame[t].r], ![frame[t].r] = NULL]
    /\ Step(t, "done", frame[t])
    /\ UNCHANGED <<cfgvars, live, refcnt_, objvars, poolvars, ub, aborted>>

(* ------------------------------------------------ Shp: destroy/reset/swap *)
(* ~Shp() { if ( p_ ) p_->decRef(); }                                      *)
Destroy(t, h) ==
    /\ Idle(t) /\ live[h] /\ ~InUse(t, h)
    /\ p_[h] # NULL => refcnt_[p_[h]] > -MaxDebt
    /\ IF p_[h] # NULL
       THEN decRef(t, p_[h], "dtor_end", NewFrame("dtor", h, NULL))
       ELSE UNCHANGED <<refcnt_, ub>> /\ Step(t, "dtor_end", NewFrame("dtor", h, NULL))
    /\ UNCHANGED <<cfgvars, p_, live, objvars, poolvars, aborted>>

(* the handle's lifetime ends                                              *)
DtorEnd(t) ==
    /\ At(t, "dtor_end")
    /\ live' = [live EXCEPT ![frame[t].l] = FALSE]
    /\ p_' = [p_ EXCEPT ![frame[t].l] = NULL]
    /\ Step(t, "done", frame[t])
    /\ UNCHANGED <<cfgvars, refcnt_, objvars, poolvars, ub, aborted>>

(* reset(): if ( p_ ) { p_->decRef();                                      *)
Reset(t, h) ==
    /\ Idle(t) /\ live[h] /\ ~InUse(t, h)
    /\ p_[h] # NULL => refcnt_[p_[h]] > -MaxDebt
    /\ IF p_[h] # NULL
       THEN decRef(t, p_[h], "reset_clr", NewFrame("reset", h, NULL))
       ELSE UNCHANGED <<refcnt_, ub>> /\ Step(t, "done", NewFrame("reset", h, NULL))
    /\ UNCHANGED <<cfgvars, p_, live, objvars, poolvars, aborted>>

(* reset(): p_ = nullptr; }                                                *)
ResetClr(t) ==
    /\ At(t, "reset_clr")
    /\ p_' = [p_ EXCEPT ![frame[t].l] = NULL]
    /\ Step(t, "done", frame[t])
    /\ UNCHANGED <<cfgvars, live, refcnt_, objvars, poolvars, ub, aborted>>

(* a swap that overwrites the left handle and keeps the right one         *)
Swap_Overwrite(t, l, r) ==
    /\ Idle(t) /\ live[l] /\ live[r] /\ ~InUse(t, l) /\ ~InUse(t, r)
    /\ htype[l] = htype[r]
    /\ p_' = [p_ EXCEPT ![l] = p_[r]]
    /\ Step(t, "done", NewFrame("swap", l, r))
    /\ UNCHANGED <<cfgvars, live, refcnt_, objvars, poolvars, ub, aborted>>

(* swap(Shp &rhs)                                                          *)
Swap(t, l, r) ==
    /\ Idle(t) /\ live[l] /\ live[r] /\ ~InUse(t, l) /\ ~InUse(t, r)
    /\ htype[l] = htype[r]
    /\ p_' = [p_ EXCEPT ![l] = p_[r], ![r] = p_[l]]
    /\ Step(t, "done", NewFrame("swap", l, r))
    /\ UNCHANGED <<cfgvars, live, refcnt_, objvars, poolvars, ub, aborted>>

(* ------------------------------------------------------ the release hook *)
Fired(t, f) == [f EXCEPT !.fired = @ \cup {frame[t].obj}]

CountHook(o) == hooks' = [hooks EXCEPT ![o] = IF @ < HookCap THEN @ + 1 ELSE @]

(* ShpBase::unmanage: delete this.  A second delete of the same object is  *)
(* undefined: the program goes on or ends.                                 *)
Unmanage(t) ==
    /\ At(t, "unmanage")
    /\ kind[frame[t].obj] = "plain"
    /\ CountHook(frame[t].obj)
    /\ destroyed' = [destroyed EXCEPT ![frame[t].obj] = TRUE]
    /\ ub' = (ub \/ destroyed[frame[t].obj])
    /\ Step(t, frame[t].ret, Fired(t, frame[t]))
    /\ UNCHANGED <<cfgvars, p_, live, refcnt_, poolvars, aborted>>

(* FreeListNode::unmanage: list()->put(this).  list() throws if the count  *)
(* is not 0; if the link field does not hold a pool (it holds a next       *)
(* pointer, or nothing yet) the call goes through a wild pointer: the      *)
(* program ends or some pool is entered.                                   *)
NodeUnmanage(t) ==
    /\ At(t, "unmanage")
    /\ kind[frame[t].obj] = "node"
    /\ CountHook(frame[t].obj)
    /\ IF refcnt_[frame[t].obj] # 0
       THEN Throw(t, Fired(t, frame[t]))
       ELSE /\ UNCHANGED mtx_
            /\ IF u_[frame[t].obj] \in Pools
               THEN /\ Step(t, "put_lock", [Fired(t, frame[t]) EXCEPT !.pool = u_[frame[t].obj]])
                    /\ UNCHANGED <<ub, aborted>>
               ELSE /\ ub' = TRUE
                    /\ \/ /\ aborted' = TRUE
                          /\ Step(t, "unmanage", Fired(t, frame[t]))
                       \/ /\ aborted' = aborted
                          /\ \E q \in Pools : Step(t, "put_lock", [Fired(t, frame[t]) EXCEPT !.pool = q])
    /\ UNCHANGED <<cfgvars, p_, live, refcnt_, destroyed, anchor_, u_, avail_>>

(* ------------------------------------------------------ FreeListBase::put *)
(* std::atomic<unsigned> avail_: arithmetic modulo 2^32.  The model keeps   *)
(* the representative of the value in -2^31 .. 2^31-1, so -1 stands for    *)
(* 4294967295 (fetch_sub on 0).                                            *)
Half == 2147483647

(* a node the caller may hand to put(): one that was constructed and has   *)
(* not been given to a pool or a handle yet                                *)
Fresh(n) == kind[n] = "node" /\ u_[n] = UNINIT /\ refcnt_[n] = 0 /\ ~destroyed[n] /\ ~Queued(n)

(* not handed to put() by another thread at this moment                    *)
InPut(t, n) == \E s \in active \ {t} : pc[s] # "idle" /\ frame[s].op = "put" /\ frame[s].obj = n

(* q.put(n) called by the program                                          *)
Put(t, q, n) ==
    /\ Idle(t) /\ Fresh(n) /\ ~InPut(t, n)
    /\ Step(t, "put_lock", [NewFrame("put", NULL, NULL) EXCEPT !.obj = n, !.pool = q, !.ret = "done"])
    /\ UNCHANGED <<cfgvars, p_, live, refcnt_, objvars, poolvars, ub, aborted>>

(* q.put(n) called with the pointer to any node that exists, whatever its  *)
(* count and wherever it is: put() takes a raw pointer and cannot tell     *)
PutAny(t, q, n) ==
    /\ Idle(t) /\ kind[n] = "node" /\ ~destroyed[n]
    /\ avail_[q] < MaxAvail
    /\ Step(t, "put_lock", [NewFrame("put", NULL, NULL) EXCEPT !.obj = n, !.pool = q, !.ret = "done"])
    /\ UNCHANGED <<cfgvars, p_, live, refcnt_, objvars, poolvars, ub, aborted>>

(* std::unique_lock l( mtx_ );                                             *)
PutLock(t) ==
    /\ At(t, "put_lock")
    /\ mtx_[frame[t].pool] = NULL
    /\ mtx_' = [mtx_ EXCEPT ![frame[t].pool] = t]
    /\ Step(t, "put_body", frame[t])
    /\ UNCHANGED <<cfgvars, p_, live, refcnt_, objvars, anchor_, u_, avail_, ub, aborted>>

(* a put() that makes the node the head without linking the former head   *)
(* behind it                                                               *)
PutBody_NoLink(t) ==
    /\ At(t, "put_body")
    /\ LET n == frame[t].obj
           q == frame[t].pool
       IN  IF refcnt_[n] # 0
           THEN Throw(t, frame[t]) /\ UNCHANGED <<anchor_, u_, avail_>>
           ELSE /\ u_' = [u_ EXCEPT ![n] = NULL]
                /\ anchor_' = [anchor_ EXCEPT ![q] = n]
                /\ avail_' = [avail_ EXCEPT ![q] = IF @ = Half THEN -Half - 1 ELSE @ + 1]
                /\ Step(t, "put_unlock", frame[t])
                /\ UNCHANGED <<mtx_, ub, aborted>>
    /\ UNCHANGED <<cfgvars, p_, live, refcnt_, objvars>>

(* p->setNext( anchor_ ); anchor_ = p; avail_.fetch_add(1);                *)
(* setNext throws if the count is not 0                                    *)
PutBody(t) ==
    /\ At(t, "put_body")
    /\ LET n == frame[t].obj
           q == frame[t].pool
       IN  IF refcnt_[n] # 0
           THEN Throw(t, frame[t]) /\ UNCHANGED <<anchor_, u_, avail_>>
           ELSE /\ u_' = [u_ EXCEPT ![n] = anchor_[q]]
                /\ anchor_' = [anchor_ EXCEPT ![q] = n]
                /\ avail_' = [avail_ EXCEPT ![q] = IF @ = Half THEN -Half - 1 ELSE @ + 1]
                /\ Step(t, "put_unlock", frame[t])
                /\ UNCHANGED <<mtx_, ub, aborted>>
    /\ UNCHANGED <<cfgvars, p_, live, refcnt_, objvars>>

(* the unique_lock goes out of scope; put() returns                        *)
PutUnlock(t) ==
    /\ At(t, "put_unlock")
    /\ mtx_' = [mtx_ EXCEPT ![frame[t].pool] = NULL]
    /\ Step(t, frame[t].ret, frame[t])
    /\ UNCHANGED <<cfgvars, p_, live, refcnt_, objvars, anchor_, u_, avail_, ub, aborted>>

(* --------------------------------------------- FreeListBase::get / getRaw *)
(* Shp<T> h = q.get<T>()                                                   *)
Get(t, q, h) ==
    /\ Idle(t) /\ ~live[h] /\ ~InUse(t, h)
    /\ Step(t, "get_lock", [NewFrame("get", h, NULL) EXCEPT !.pool = q])
    /\ UNCHANGED <<cfgvars, p_, live, refcnt_, objvars, poolvars, ub, aborted>>

(* a getRaw() that enters without waiting for the mutex                    *)
GetLock_NoWait(t) ==
    /\ At(t, "get_lock")
    /\ mtx_' = [mtx_ EXCEPT ![frame[t].pool] = t]
    /\ Step(t, "get_body", frame[t])
    /\ UNCHANGED <<cfgvars, p_, live, refcnt_, objvars, anchor_, u_, avail_, ub, aborted>>

(* getRaw: std::unique_lock l( mtx_ );                                     *)
GetLock(t) ==
    /\ At(t, "get_lock")
    /\ mtx_[frame[t].pool] = NULL
    /\ mtx_' = [mtx_ EXCEPT ![frame[t].pool] = t]
    /\ Step(t, "get_body", frame[t])
    /\ UNCHANGED <<cfgvars, p_, live, refcnt_, objvars, anchor_, u_, avail_, ub, aborted>>

(* a getRaw() that decrements avail_ on an empty chain as well             *)
GetBody_CountsDown(t) ==
    /\ At(t, "get_body")
    /\ LET q  == frame[t].pool
           rv == anchor_[q]
       IN  IF rv = NULL
           THEN /\ Step(t, "get_unlock", [frame[t] EXCEPT !.obj = NULL])
                /\ avail_' = [avail_ EXCEPT ![q] = IF @ = -Half - 1 THEN Half ELSE @ - 1]
                /\ UNCHANGED <<anchor_, u_, mtx_, hooks, ub, aborted>>
           ELSE IF refcnt_[rv] # 0
           THEN Throw(t, frame[t]) /\ UNCHANGED <<anchor_, u_, avail_, hooks>>
           ELSE /\ UNCHANGED mtx_
                /\ \/ /\ u_[rv] \in Objs \cup {NULL}
                      /\ anchor_' = [anchor_ EXCEPT ![q] = u_[rv]]
                      /\ UNCHANGED <<ub, aborted>>
                   \/ /\ u_[rv] \notin Objs \cup {NULL}
                      /\ ub' = TRUE
                      /\ \/ aborted' = TRUE /\ UNCHANGED anchor_
                         \/ /\ aborted' = aborted
                            /\ \E n \in Objs \cup {NULL} : anchor_' = [anchor_ EXCEPT ![q] = n]
                /\ u_' = [u_ EXCEPT ![rv] = q]
                /\ avail_' = [avail_ EXCEPT ![q] = IF @ = -Half - 1 THEN Half ELSE @ - 1]
                /\ hooks' = [hooks EXCEPT ![rv] = 0]
                /\ Step(t, "get_unlock", [frame[t] EXCEPT !.obj = rv])
    /\ UNCHANGED <<cfgvars, p_, live, refcnt_, destroyed>>

(* getRaw: auto rv = anchor_; if ( rv ) { anchor_ = rv->next();            *)
(*         rv->setList( this ); avail_.fetch_sub(1); }                     *)
(* next() and setList() throw if the count is not 0.  If the link field    *)
(* of rv holds a pool and not a next pointer, next() yields a wild         *)
(* pointer: the program ends, or goes on with any node or none as head.    *)
GetBody(t) ==
    /\ At(t, "get_body")
    /\ LET q  == frame[t].pool
           rv == anchor_[q]
       IN  IF rv = NULL
           THEN /\ Step(t, "get_unlock", [frame[t] EXCEPT !.obj = NULL])
                /\ UNCHANGED <<anchor_, u_, avail_, mtx_, hooks, ub, aborted>>
           ELSE IF refcnt_[rv] # 0
           THEN Throw(t, frame[t]) /\ UNCHANGED <<anchor_, u_, avail_, hooks>>
           ELSE /\ UNCHANGED mtx_
                /\ \/ /\ u_[rv] \in Objs \cup {NULL}
                      /\ anchor_' = [anchor_ EXCEPT ![q] = u_[rv]]
                      /\ UNCHANGED <<ub, aborted>>
                   \/ /\ u_[rv] \notin Objs \cup {NULL}
                      /\ ub' = TRUE
                      /\ \/ aborted' = TRUE /\ UNCHANGED anchor_
                         \/ /\ aborted' = aborted
                            /\ \E n \in Objs \cup {NULL} : anchor_' = [anchor_ EXCEPT ![q] = n]
                /\ u_' = [u_ EXCEPT ![rv] = q]
                /\ avail_' = [avail_ EXCEPT ![q] = IF @ = -Half - 1 THEN Half ELSE @ - 1]
                /\ hooks' = [hooks EXCEPT ![rv] = 0]
                /\ Step(t, "get_unlock", [frame[t] EXCEPT !.obj = rv])
    /\ UNCHANGED <<cfgvars, p_, live, refcnt_, destroyed>>

(* getRaw returns, to get<T>() or to ~FreeListBase(): the unique_lock goes  *)
(* out of scope                                                            *)
GetUnlock(t) ==
    /\ At(t, "get_unlock")
    /\ mtx_' = [mtx_ EXCEPT ![frame[t].pool] = NULL]
    /\ Step(t, IF frame[t].op = "pool_dtor" THEN "pdt_delete" ELSE "get_wrap", frame[t])
    /\ UNCHANGED <<cfgvars, p_, live, refcnt_, objvars, anchor_, u_, avail_, ub, aborted>>

(* get: return Shp<T>(static_cast<T*>( p ));   Shp(T *p) : p_(p), then     *)
(* CtorInc                                                                 *)
GetWrap(t) ==
    /\ At(t, "get_wrap")
    /\ live' = [live EXCEPT ![frame[t].l] = TRUE]
    /\ p_' = [p_ EXCEPT ![frame[t].l] = frame[t].obj]
    /\ Step(t, "ctor_inc", frame[t])
    /\ UNCHANGED <<cfgvars, refcnt_, objvars, poolvars, ub, aborted>>

(* ------------------------------------------- FreeListBase::~FreeListBase *)
(* ~FreeListBase(): while ( auto p = getRaw() ) { delete p; }              *)
(* The first getRaw() starts here; GetLock, GetBody and GetUnlock are its  *)
(* steps, PdtDelete the loop's test and body.                              *)
PoolDestroy(t, q) ==
    /\ Idle(t)
    /\ Step(t, "get_lock", [NewFrame("pool_dtor", NULL, NULL) EXCEPT !.pool = q])
    /\ UNCHANGED <<cfgvars, p_, live, refcnt_, objvars, poolvars, ub, aborted>>

(* a loop that ends after the first node                                   *)
PdtDelete_OnlyFirst(t) ==
    /\ At(t, "pdt_delete")
    /\ IF frame[t].obj = NULL
       THEN /\ Step(t, "done", frame[t])
            /\ UNCHANGED <<destroyed, ub>>
       ELSE /\ destroyed' = [destroyed EXCEPT ![frame[t].obj] = TRUE]
            /\ ub' = (ub \/ destroyed[frame[t].obj])
            /\ Step(t, "done", frame[t])
    /\ UNCHANGED <<cfgvars, p_, live, refcnt_, hooks, poolvars, aborted>>

(* p is null: the loop and the destructor end.  Otherwise delete p, which  *)
(* is undefined for a node deleted before, and the next getRaw().          *)
PdtDelete(t) ==
    /\ At(t, "pdt_delete")
    /\ IF frame[t].obj = NULL
       THEN /\ Step(t, "done", frame[t])
            /\ UNCHANGED <<destroyed, ub>>
       ELSE /\ destroyed' = [destroyed EXCEPT ![frame[t].obj] = TRUE]
            /\ ub' = (ub \/ destroyed[frame[t].obj])
            /\ Step(t, "get_lock", frame[t])
    /\ UNCHANGED <<cfgvars, p_, live, refcnt_, hooks, poolvars, aborted>>

(* ----------------------------------------------------------------- Init *)
(* nothing constructed but the objects (count 0, link field not set) and   *)
(* the empty pools                                                         *)
InitState ==
    /\ ver \in {1, 2}
    /\ kind \in {[o \in Objs |-> "plain"], [o \in Objs |-> "node"]}
    /\ p_ = [h \in Handles |-> NULL]
    /\ live = [h \in Handles |-> FALSE]
    /\ refcnt_ = [o \in Objs |-> 0]
    /\ destroyed = [o \in Objs |-> FALSE]
    /\ hooks = [o \in Objs |-> 0]
    /\ anchor_ = [q \in Pools |-> NULL]
    /\ u_ = [o \in Objs |-> UNINIT]
    /\ avail_ = [q \in Pools |-> 0]
    /\ mtx_ = [q \in Pools |-> NULL]
    /\ pc = [t \in Threads |-> "idle"]
    /\ frame = [t \in Threads |-> NoFrame]
    /\ ub = FALSE
    /\ aborted = FALSE

(* one thread: every sequence of operations                                *)
Init == InitState /\ active = {"t1"}

(* the pools the program of Spec calls put() and get<T>() on               *)
UsedPools == {"P"}

Next ==
    \E t \in Threads :
        \/ \E h \in Handles : DefaultConstruct(t, h)
        \/ \E h \in Handles, o \in Objs : ConstructRaw(t, h, o)
        \/ \E h, r \in Handles : CopyConstruct(t, h, r)
        \/ \E h, r \in Handles : MoveConstruct(t, h, r)
        \/ CtorInc(t)
        \/ \E l, r \in Handles : CopyAssign(t, l, r)
        \/ Asg1Inc(t)
        \/ Asg1Dec(t)
        \/ Asg2Dec(t)
        \/ Asg2Inc(t)
        \/ \E l, r \in Handles : MoveAssign(t, l, r)
        \/ Mva1Cmp(t)
        \/ MvaClear(t)
        \/ Mva2Dec(t)
        \/ Mva2Take(t)
        \/ \E h \in Handles : Destroy(t, h)
        \/ DtorEnd(t)
        \/ \E h \in Handles : Reset(t, h)
        \/ ResetClr(t)
        \/ \E l, r \in Handles : Swap(t, l, r)
        \/ Unmanage(t)
        \/ NodeUnmanage(t)
        \/ \E q \in UsedPools, n \in Objs : Put(t, q, n)
        \/ PutLock(t)
        \/ PutBody(t)
        \/ PutUnlock(t)
        \/ \E q \in UsedPools, h \in Handles : Get(t, q, h)
        \/ GetLock(t)
        \/ GetBody(t)
        \/ GetUnlock(t)
        \/ GetWrap(t)
        \/ Done(t)

Spec == Init /\ [][Next]_vars

(* ------------------------------------------- N shares dropped by threads *)
(* Some handles, all aliasing one object whose count is their number; a    *)
(* node has been checked out of pool P.  Every thread may destroy any of   *)
(* the handles.                                                            *)
InitShares ==
    \E x \in Objs : \E S \in SUBSET Handles \ {{}} :
        /\ ver \in {1, 2}
        /\ kind \in {[o \in Objs |-> "plain"], [o \in Objs |-> "node"]}
        /\ active = Threads
        /\ p_ = [h \in Handles |-> IF h \in S THEN x ELSE NULL]
        /\ live = [h \in Handles |-> h \in S]
        /\ refcnt_ = [o \in Objs |-> IF o = x THEN Cardinality(S) ELSE 0]
        /\ destroyed = [o \in Objs |-> FALSE]
        /\ hooks = [o \in Objs |-> 0]
        /\ anchor_ = [q \in Pools |-> NULL]
        /\ u_ = [o \in Objs |-> IF o = x /\ kind[o] = "node" THEN "P" ELSE UNINIT]
        /\ avail_ = [q \in Pools |-> 0]
        /\ mtx_ = [q \in Pools |-> NULL]
        /\ pc = [t \in Threads |-> "idle"]
        /\ frame = [t \in Threads |-> NoFrame]
        /\ ub = FALSE
        /\ aborted = FALSE

NextDrop ==
    \E t \in Threads :
        \/ \E h \in Handles : Destroy(t, h)
        \/ DtorEnd(t)
        \/ Unmanage(t)
        \/ NodeUnmanage(t)
        \/ PutLock(t)
        \/ PutBody(t)
        \/ PutUnlock(t)
        \/ Done(t)

SpecDrop == InitShares /\ [][NextDrop]_vars

(* -------------------------- copy assignment racing a new handle on A *)
(* h1 is the sole handle of A, h2 the sole handle of B (nodes have been    *)
(* checked out of pool P).  Thread t1 executes h1 = h2 once; thread t2     *)
(* constructs h3 from the raw pointer to A, and may destroy it again.      *)
InitRace ==
    /\ ver \in {1, 2}
    /\ kind \in {[o \in Objs |-> "plain"], [o \in Objs |-> "node"]}
    /\ active = {"t1", "t2"}
    /\ p_ = [h \in Handles |-> IF h = "h1" THEN "A" ELSE IF h = "h2" THEN "B" ELSE NULL]
    /\ live = [h \in Handles |-> h \in {"h1", "h2"}]
    /\ refcnt_ = [o \in Objs |-> 1]
    /\ destroyed = [o \in Objs |-> FALSE]
    /\ hooks = [o \in Objs |-> 0]
    /\ anchor_ = [q \in Pools |-> NULL]
    /\ u_ = [o \in Objs |-> IF kind[o] = "node" THEN "P" ELSE UNINIT]
    /\ avail_ = [q \in Pools |-> 0]
    /\ mtx_ = [q \in Pools |-> NULL]
    /\ pc = [t \in Threads |-> "idle"]
    /\ frame = [t \in Threads |-> NoFrame]
    /\ ub = FALSE
    /\ aborted = FALSE

NextRace ==
    \/ CopyAssign("t1", "h1", "h2")
    \/ ConstructRaw("t2", "h3", "A")
    \/ Destroy("t2", "h3")
    \/ Done("t2")
    \/ \E t \in Threads :
          \/ CtorInc(t)
          \/ Asg1Inc(t)
          \/ Asg1Dec(t)
          \/ Asg2Dec(t)
          \/ Asg2Inc(t)
          \/ DtorEnd(t)
          \/ Unmanage(t)
          \/ NodeUnmanage(t)
          \/ PutLock(t)
          \/ PutBody(t)
          \/ PutUnlock(t)

SpecRace == InitRace /\ [][NextRace]_vars

(* ------------------------------------------- threads sharing the pools *)
(* Two threads use the pools as documented: a node is handed to put()      *)
(* when it is new, nodes are checked out with get<T>() into one of two     *)
(* handles, the handles are dropped, and the hook brings a node back to    *)
(* its pool.  The operations involved are the same in both definitions of  *)
(* Shp.                                                                    *)
PoolHandles == {"h1", "h2"}

InitPool ==
    /\ InitState
    /\ ver = 1
    /\ kind = [o \in Objs |-> "node"]
    /\ active = {"t1", "t2"}

NextPool ==
    \E t \in Threads :
        \/ \E q \in Pools, n \in Objs : Put(t, q, n)
        \/ PutLock(t)
        \/ PutBody(t)
        \/ PutUnlock(t)
        \/ \E q \in Pools, h \in PoolHandles : Get(t, q, h)
        \/ GetLock(t)
        \/ GetBody(t)
        \/ GetUnlock(t)
        \/ GetWrap(t)
        \/ CtorInc(t)
        \/ \E h \in PoolHandles : Destroy(t, h)
        \/ DtorEnd(t)
        \/ NodeUnmanage(t)
        \/ Done(t)

SpecPool == InitPool /\ [][NextPool]_vars

(* ------------------------------------------------ put() of any pointer *)
(* One thread uses one pool and two handles, and hands put() any node:     *)
(* one that is checked out, one that is queued already, a new one.         *)
InitAnyPut ==
    /\ InitState
    /\ ver = 1
    /\ kind = [o \in Objs |-> "node"]
    /\ active = {"t1"}

NextAnyPut ==
    \E t \in Threads :
        \/ \E q \in Pools, n \in Objs : PutAny(t, q, n)
        \/ PutLock(t)
        \/ PutBody(t)
        \/ PutUnlock(t)
        \/ \E q \in Pools, h \in PoolHandles : Get(t, q, h)
        \/ GetLock(t)
        \/ GetBody(t)
        \/ GetUnlock(t)
        \/ GetWrap(t)
        \/ CtorInc(t)
        \/ \E h \in PoolHandles : Destroy(t, h)
        \/ DtorEnd(t)
        \/ NodeUnmanage(t)
        \/ Done(t)

SpecAnyPut == InitAnyPut /\ [][NextAnyPut]_vars

(* -------------------------------------------------- a pool is destroyed *)
(* Each node is queued in P, queued in Q, or checked out of one of them    *)
(* and held by handles.  Thread t1 destroys pool P.  Meanwhile thread t2   *)
(* copies and drops handles, without giving up the last share of a node    *)
(* that would go back to P: the pool must outlive the nodes it receives.   *)
NodesIn(place, q) == {n \in Objs : place[n] = q}

InitPoolDtor ==
    \E place \in [Objs -> Pools \cup {"out"}], owner \in [Objs -> Pools],
       hs \in [Handles -> Objs \cup {NULL}], first \in Objs :
        /\ \A h \in Handles : hs[h] # NULL => place[hs[h]] = "out"
        /\ \A n \in Objs : place[n] = "out" => \E h \in Handles : hs[h] = n
        /\ ver = 1
        /\ kind = [o \in Objs |-> "node"]
        /\ active = {"t1", "t2"}
        /\ p_ = hs
        /\ live = [h \in Handles |-> hs[h] # NULL]
        /\ refcnt_ = [o \in Objs |-> Cardinality({h \in Handles : hs[h] = o})]
        /\ destroyed = [o \in Objs |-> FALSE]
        /\ hooks = [o \in Objs |-> 0]
        /\ anchor_ = [q \in Pools |->
                        IF NodesIn(place, q) = {} THEN NULL
                        ELSE IF first \in NodesIn(place, q) THEN first
                        ELSE CHOOSE n \in NodesIn(place, q) : TRUE]
        /\ u_ = [o \in Objs |->
                    IF place[o] = "out" THEN owner[o]
                    ELSE IF o = first /\ NodesIn(place, place[o]) # {o}
                         THEN CHOOSE n \in NodesIn(place, place[o]) : n # o
                         ELSE NULL]
        /\ avail_ = [q \in Pools |-> Cardinality(NodesIn(place, q))]
        /\ mtx_ = [q \in Pools |-> NULL]
        /\ pc = [t \in Threads |-> "idle"]
        /\ frame = [t \in Threads |-> NoFrame]
        /\ ub = FALSE
        /\ aborted = FALSE

(* the steps of ~FreeListBase() once it has been entered                   *)
PoolDtorSteps(t) == GetLock(t) \/ GetBody(t) \/ GetUnlock(t) \/ PdtDelete(t)

NextPoolDtor ==
    \/ PoolDestroy("t1", "P")
    \/ GetLock("t1")
    \/ GetBody("t1")
    \/ GetUnlock("t1")
    \/ PdtDelete("t1")
    \/ \E h, r \in Handles : CopyConstruct("t2", h, r)
    \/ CtorInc("t2")
    \/ \E h \in Handles :
          /\ live[h] /\ p_[h] # NULL
          /\ refcnt_[p_[h]] > 1 \/ u_[p_[h]] # "P"
          /\ Destroy("t2", h)
    \/ DtorEnd("t2")
    \/ NodeUnmanage("t2")
    \/ PutLock("t2")
    \/ PutBody("t2")
    \/ PutUnlock("t2")
    \/ Done("t2")

SpecPoolDtor == InitPoolDtor /\ [][NextPoolDtor]_vars

(* the thread that destroys the pool keeps running                         *)
SpecPoolDtorLive == SpecPoolDtor /\ WF_vars(PoolDtorSteps("t1"))

(* ================================================================ claims *)
(* thread t has finished an operation named in ops and not yet returned    *)
AtDone(t, ops) == t \in active /\ pc[t] = "done" /\ frame[t].op \in ops

(* no thread is inside an operation and every handle has been destroyed    *)
AllDropped == (\A h \in Handles : ~live[h]) /\ (\A t \in Threads : pc[t] = "idle")

(* C1: when the N >= 1 shares of an object are dropped by decRef() calls   *)
(* interleaved across threads, the hook is invoked exactly once: never     *)
(* twice, once when all shares are gone, and by the thread, and only by    *)
(* the thread, whose fetch_sub returned 1.                                 *)
C1_HookExactlyOnce ==
    /\ \A o \in Objs : hooks[o] <= 1
    /\ \A t \in Threads : (pc[t] = "unmanage" \/ frame[t].fired # {}) => frame[t].rv = 1
    /\ \A t \in Threads : (frame[t].op = "dtor" /\ frame[t].rv = 1) =>
                             (pc[t] = "unmanage" \/ frame[t].fired = {frame[t].obj})
    /\ AllDropped => \E o \in Objs : hooks[o] = 1 /\ \A o2 \in Objs \ {o} : hooks[o2] = 0

(* two threads are dropping shares of one object at once: one took the     *)
(* count from 2 to 1, the other from 1 to 0 and is about to run the hook   *)
C1_Witness ==
    \E t, s \in Threads :
        /\ t # s /\ pc[t] = "unmanage" /\ pc[s] = "dtor_end"
        /\ frame[s].obj = frame[t].obj /\ frame[s].rv = 2 /\ frame[t].rv = 1

(* C2: the hook is never invoked on an object while a handle aliases it:   *)
(* at the call no live handle but the one giving up its share aliases the  *)
(* object, and once the operation that invoked the hook has finished no    *)
(* live handle aliases the object at all.                                  *)
C2_HookOnlyWhenUnaliased ==
    \A t \in Threads :
        /\ At(t, "unmanage") =>
              \A h \in Handles : (live[h] /\ p_[h] = frame[t].obj) => h = frame[t].l
        /\ pc[t] = "done" => \A o \in frame[t].fired : Aliases(o) = 0

(* C3: after every completed handle operation each object's count equals   *)
(* the number of live non-empty handles that alias it, and is not negative *)
C3_CountIsAliases ==
    (\A t \in Threads : pc[t] \in {"idle", "done"}) =>
        \A o \in Objs : refcnt_[o] = Aliases(o) /\ refcnt_[o] >= 0

(* C4: h = h (copy assignment onto itself), for a handle h whose object    *)
(* has not been released, leaves the handle's identity and every count     *)
(* unchanged and fires no hook, also when the count is 1                   *)
C4_SelfCopyAssignNoop ==
    \A t \in Threads :
        (/\ AtDone(t, {"copy_assign"})
         /\ frame[t].l = frame[t].r
         /\ frame[t].pre.p[frame[t].l] # NULL
         /\ frame[t].pre.p[frame[t].l] \notin frame[t].pre.gone) =>
              /\ p_[frame[t].l] = frame[t].pre.p[frame[t].l]
              /\ refcnt_ = frame[t].pre.cnt
              /\ frame[t].fired = {}

(* the case of C5: h1 = h2 has finished, where h1 was the sole handle of   *)
(* an object a with count 1, h2 aliased another object b, and both were    *)
(* objects in the custody of handles (not deleted, not parked in a pool)   *)
C5_Case(t) ==
    /\ AtDone(t, {"copy_assign"})
    /\ LET l == frame[t].l
           r == frame[t].r
           pre == frame[t].pre
       IN  /\ l # r
           /\ pre.p[l] # NULL /\ pre.p[r] # NULL /\ pre.p[l] # pre.p[r]
           /\ pre.cnt[pre.p[l]] = 1
           /\ \A h \in Handles \ {l} : ~(pre.live[h] /\ pre.p[h] = pre.p[l])
           /\ pre.p[l] \notin pre.gone /\ pre.p[r] \notin pre.gone

(* C5: after h1 = h2 in that case a's count is 0 and a's hook has fired    *)
(* once, b's count is one higher, and h1 and h2 both alias b               *)
C5_CopyAssignReleasesOld ==
    \A t \in Threads :
        C5_Case(t) =>
            LET l == frame[t].l
                r == frame[t].r
                pre == frame[t].pre
                a == pre.p[l]
                b == pre.p[r]
            IN  /\ refcnt_[a] = 0
                /\ frame[t].fired = {a} /\ hooks[a] = 1
                /\ refcnt_[b] = pre.cnt[b] + 1
                /\ p_[l] = b /\ p_[r] = b
                /\ ~frame[t].threw

C5_Witness == \E t \in Threads : C5_Case(t)

(* C6 as stated: while h1 = h2 races the construction of h3 on A, A's     *)
(* hook fires at most once, the assignment never fires it while h3         *)
(* aliases A, and B's count ends one higher                                *)
C6_RaceNeverReleases ==
    /\ hooks["A"] <= 1
    /\ (At("t1", "unmanage") /\ frame["t1"].obj = "A") => ~(live["h3"] /\ p_["h3"] = "A")
    /\ AtDone("t1", {"copy_assign"}) => refcnt_["B"] = 2

(* the assignment's fetch_sub on A has been executed and returned 2: the   *)
(* racing fetch_add came first                                             *)
C6_IncFirst ==
    /\ frame["t1"].op = "copy_assign" /\ frame["t1"].obj = "A" /\ frame["t1"].rv = 2

(* the assignment's fetch_sub on A returned 1: it came first               *)
C6_DecFirst ==
    /\ frame["t1"].op = "copy_assign" /\ frame["t1"].obj = "A" /\ frame["t1"].rv = 1

(* C6 amended: in the interleavings in which the racing increment of A     *)
(* precedes the assignment's decrement, the assignment does not fire A's   *)
(* hook, the hook fires at most once, by the thread that drops h3 and      *)
(* while no other handle holds a share of A, and the assignment ends with  *)
(* B's                                                                     *)
(* count one higher and h1, h2 aliasing B; in the interleavings in which   *)
(* the decrement comes first, the assignment invokes A's hook.             *)
C6_RaceIncrementFirst ==
    /\ C6_IncFirst =>
          /\ frame["t1"].fired = {}
          /\ hooks["A"] <= 1
          /\ \A t \in Threads : (At(t, "unmanage") /\ frame[t].obj = "A") =>
                /\ t = "t2"
                /\ \A h \in Handles : (live[h] /\ p_[h] = "A") =>
                      \/ h = "h3"
                      \/ h = "h1" /\ pc["t1"] = "asg2_inc"   \* share dropped, p_ not yet stored
          /\ pc["t1"] = "done" =>
                /\ refcnt_["B"] = 2 /\ p_["h1"] = "B" /\ p_["h2"] = "B"
                /\ ~frame["t1"].threw
    /\ (C6_DecFirst /\ pc["t1"] = "done") => "A" \in frame["t1"].fired

(* the increment came first, the assignment has finished, and the racing   *)
(* handle has been dropped since: the hook has run once                    *)
C6_Witness == C6_IncFirst /\ pc["t1"] = "done" /\ hooks["A"] = 1 /\ ~live["h3"]

(* the case of C7: a move construction or move assignment has finished     *)
(* whose source aliased an object x in the custody of handles, and whose   *)
(* target was another handle that did not alias x                          *)
C7_Case(t) ==
    /\ AtDone(t, {"move_ctor", "move_assign", "move_assign_t"})
    /\ LET l == frame[t].l
           r == frame[t].r
           pre == frame[t].pre
       IN  /\ l # r
           /\ pre.p[r] # NULL /\ pre.p[l] # pre.p[r]
           /\ pre.p[r] \notin pre.gone

(* C7: a move leaves the count of the source's object unchanged, makes     *)
(* the target alias it and leaves the source empty                         *)
C7_MoveTransfersShare ==
    \A t \in Threads :
        C7_Case(t) =>
            LET x == frame[t].pre.p[frame[t].r]
            IN  /\ refcnt_[x] = frame[t].pre.cnt[x]
                /\ p_[frame[t].l] = x
                /\ p_[frame[t].r] = NULL

(* the case of C8: h1 = std::move(h2) has finished, where h1 and h2 were   *)
(* two handles each holding a share of the same object x (count >= 2)      *)
C8_Case(t) ==
    /\ AtDone(t, {"move_assign", "move_assign_t"})
    /\ LET l == frame[t].l
           r == frame[t].r
           pre == frame[t].pre
       IN  /\ l # r
           /\ pre.p[l] # NULL /\ pre.p[l] = pre.p[r]
           /\ pre.cnt[pre.p[l]] >= 2
           /\ pre.p[l] \notin pre.gone

C9_SelfMoveAssignNoop ==
    \A t \in Threads :
        (/\ AtDone(t, {"move_assign", "move_assign_t"})
         /\ frame[t].l = frame[t].r
         /\ frame[t].pre.p[frame[t].l] # NULL
         /\ frame[t].pre.p[frame[t].l] \notin frame[t].pre.gone) =>
              /\ p_[frame[t].l] = frame[t].pre.p[frame[t].l]
              /\ refcnt_ = frame[t].pre.cnt
              /\ frame[t].fired = {}

(* C10: in every state, the states inside get<T>() and inside the hook     *)
(* included, no node is queued in a free chain while its count is > 0      *)
C10_NeverQueuedWhileCounted ==
    \A n \in Objs : kind[n] = "node" => ~(Queued(n) /\ refcnt_[n] > 0)

(* the hook of thread t has linked its node back and still holds the lock  *)
C11_Requeued(t) == t \in active /\ pc[t] = "put_unlock" /\ frame[t].op = "dtor"

(* a step that replaces the owner recorded in a node puts that node at     *)
(* the head of the owner's chain, ahead of the former head; get<T>()       *)
(* takes the node at the head                                              *)
C11_Step ==
    /\ \A n \in Objs :
          (u_[n] \in Pools /\ u_'[n] # u_[n]) =>
              /\ anchor_'[u_[n]] = n
              /\ u_'[n] = anchor_[u_[n]]
              /\ ~destroyed'[n]
    /\ \A t \in Threads :
          (pc[t] = "get_body" /\ pc'[t] = "get_unlock") =>
              frame'[t].obj = anchor_[frame[t].pool]

(* C11: dropping the last handle of a node checked out of pool P puts the  *)
(* node back at the head of P's chain and does not destroy it (the hook    *)
(* has run once), and a get<T>() that finds it there returns a handle      *)
(* wrapping that node with count 1; in every cycle of checkout and release *)
C11_ReleaseRequeues ==
    /\ [](\A t \in Threads :
            /\ C11_Requeued(t) =>
                  /\ anchor_[frame[t].pool] = frame[t].obj
                  /\ ~destroyed[frame[t].obj]
                  /\ refcnt_[frame[t].obj] = 0
                  /\ frame[t].rv = 1
                  /\ frame[t].fired = {frame[t].obj} /\ hooks[frame[t].obj] = 1
            /\ (AtDone(t, {"get"}) /\ frame[t].obj # NULL) =>
                  /\ live[frame[t].l] /\ p_[frame[t].l] = frame[t].obj
                  /\ refcnt_[frame[t].obj] = 1
                  /\ u_[frame[t].obj] = frame[t].pool
                  /\ ~destroyed[frame[t].obj])
    /\ [][C11_Step]_vars

(* one thread has dropped the last handle of a node, whose hook put it     *)
(* back, and the other thread has checked the same node out again          *)
C11_Witness ==
    \E t, s \in Threads : \E n \in Objs :
        /\ t # s
        /\ AtDone(t, {"dtor"}) /\ frame[t].fired = {n}
        /\ AtDone(s, {"get"}) /\ frame[s].obj = n /\ refcnt_[n] = 1

(* C12 step by step: put() of a node with count 0 makes the chain that     *)
(* node followed by the chain as it was; getRaw() on a chain that is not   *)
(* empty takes the first node and leaves the rest, so it returns the most  *)
(* recently put node that is still queued; get<T>() wraps that node and    *)
(* raises its count from 0 to 1                                            *)
C12_Step ==
    \A t \in Threads :
        /\ (pc[t] = "put_body" /\ pc'[t] = "put_unlock") =>
              /\ refcnt_[frame[t].obj] = 0
              /\ Chain(frame[t].pool)' = <<frame[t].obj>> \o Chain(frame[t].pool)
        /\ (pc[t] = "get_body" /\ pc'[t] = "get_unlock" /\ Chain(frame[t].pool) # <<>>) =>
              /\ frame'[t].obj = Head(Chain(frame[t].pool))
              /\ Chain(frame[t].pool)' = Tail(Chain(frame[t].pool))
        /\ (pc[t] = "get_wrap" /\ pc'[t] = "ctor_inc") =>
              p_'[frame[t].l] = frame[t].obj
        /\ (pc[t] = "ctor_inc" /\ frame[t].op = "get" /\ frame[t].obj # NULL /\ pc'[t] = "done") =>
              refcnt_[frame[t].obj] = 0 /\ refcnt_'[frame[t].obj] = 1

(* C12: put(node) on a node with count 0 followed by get<T>() returns a    *)
(* handle wrapping that node with its count raised from 0 to 1; get<T>()   *)
(* returns the most recently put node still queued and leaves the chain    *)
(* as it was before that put                                               *)
C12_PoolRoundTrip == [][C12_Step]_vars

(* one thread has put a node on a chain that held the other node, and the  *)
(* other thread has checked out the node just put: the older node is what  *)
(* remains                                                                 *)
C12_Witness ==
    \E t, s \in Threads : \E n, m \in Objs :
        /\ t # s /\ n # m
        /\ AtDone(t, {"put"}) /\ frame[t].obj = n /\ frame[t].pre.chain[frame[t].pool] = <<m>>
        /\ AtDone(s, {"get"}) /\ frame[s].obj = n /\ frame[s].pool = frame[t].pool
        /\ refcnt_[n] = 1 /\ Chain(frame[t].pool) = <<m>>

(* thread t is in put(), past the body and still holding the lock          *)
C13_AfterPut(t) == t \in active /\ pc[t] = "put_unlock"

(* C13 as stated: put(node) makes node the head and records the pool as    *)
(* the node's owner, so that the owner field identifies the pool           *)
C13_PutRecordsOwner ==
    \A t \in Threads :
        C13_AfterPut(t) =>
            anchor_[frame[t].pool] = frame[t].obj /\ u_[frame[t].obj] = frame[t].pool

(* put() stores the former head in the link field and makes the node the   *)
(* head; getRaw() stores the pool in the link field of the node it takes   *)
C13_Step ==
    \A t \in Threads :
        /\ (pc[t] = "put_body" /\ pc'[t] = "put_unlock") =>
              /\ mtx_[frame[t].pool] = t
              /\ u_'[frame[t].obj] = anchor_[frame[t].pool]
              /\ anchor_'[frame[t].pool] = frame[t].obj
        /\ (pc[t] = "get_body" /\ pc'[t] = "get_unlock" /\ frame'[t].obj # NULL) =>
              /\ mtx_[frame[t].pool] = t
              /\ u_'[frame'[t].obj] = frame[t].pool

(* C13 amended: put(node), under the lock, links node ahead of the chain   *)
(* head and makes it the head; the link field, which is also the owner     *)
(* field, then holds the former head and not the pool.  The pool is        *)
(* recorded as owner by getRaw() when it checks the node out.              *)
C13_PutLinksGetRecordsOwner ==
    /\ [](\A t \in Threads :
            C13_AfterPut(t) =>
                /\ anchor_[frame[t].pool] = frame[t].obj
                /\ u_[frame[t].obj] \in Objs \cup {NULL}
                /\ u_[frame[t].obj] # frame[t].pool)
    /\ [][C13_Step]_vars

(* put() has linked a node ahead of another one: its link field holds the  *)
(* former head                                                             *)
C13_Witness ==
    \E t \in Threads :
        /\ C13_AfterPut(t) /\ frame[t].op = "put" /\ u_[frame[t].obj] \in Objs

(* put() finds a count that is not 0 in setNext(), getRaw() finds one in   *)
(* next(): the call ends with the exception, the link fields, the chain    *)
(* heads and the counters are what they were, and the lock is free         *)
C14_Step ==
    \A t \in Threads :
        (\/ pc[t] = "put_body" /\ refcnt_[frame[t].obj] # 0
         \/ /\ pc[t] = "get_body" /\ anchor_[frame[t].pool] # NULL
            /\ refcnt_[anchor_[frame[t].pool]] # 0) =>
              /\ pc'[t] = "done" /\ frame'[t].threw
              /\ UNCHANGED <<anchor_, u_, avail_, refcnt_>>
              /\ \A q \in Pools : Chain(q)' = Chain(q)
              /\ mtx_'[frame[t].pool] = NULL

(* C14: a link-field accessor called on a node whose count is > 0 raises   *)
(* and leaves the link field unchanged; so put(node) on such a node        *)
(* raises and leaves chain head, chain contents and advisory counter       *)
(* unchanged, and the lock is released                                     *)
C14_AccessorsRaiseWhileCounted ==
    /\ [](\A t \in Threads :
            (AtDone(t, {"put"}) /\ frame[t].pre.cnt[frame[t].obj] > 0) =>
                /\ frame[t].threw
                /\ \A q \in Pools : /\ Chain(q) = frame[t].pre.chain[q]
                                     /\ avail_[q] = frame[t].pre.avail[q]
                                     /\ mtx_[q] = NULL)
    /\ [][C14_Step]_vars

(* put() was called on a checked-out node while the other node was         *)
(* queued, and has raised                                                  *)
C14_Witness ==
    \E t \in Threads :
        /\ AtDone(t, {"put"}) /\ frame[t].threw
        /\ refcnt_[frame[t].obj] > 0
        /\ Len(Chain(frame[t].pool)) = 1 /\ Chain(frame[t].pool)[1] # frame[t].obj

(* thread t is in get<T>() after getRaw() found the chain empty            *)
C15_Exhausted(t) ==
    /\ t \in active /\ frame[t].op = "get" /\ frame[t].obj = NULL
    /\ pc[t] \in {"get_unlock", "get_wrap", "ctor_inc", "done"}

(* on an empty chain getRaw() returns null without raising and without     *)
(* changing chain, counter or counts, and so do the steps of get<T>()      *)
(* that follow                                                             *)
C15_Step ==
    \A t \in Threads :
        /\ (pc[t] = "get_body" /\ anchor_[frame[t].pool] = NULL /\ pc'[t] # pc[t]) =>
              /\ pc'[t] = "get_unlock" /\ frame'[t].obj = NULL /\ ~frame'[t].threw
              /\ UNCHANGED <<anchor_, u_, avail_, refcnt_>>
        /\ (C15_Exhausted(t) /\ pc'[t] # pc[t]) =>
              /\ ~frame'[t].threw
              /\ UNCHANGED <<anchor_, u_, avail_, refcnt_>>

(* C15: on a pool whose chain is empty getRaw() returns empty and          *)
(* get<T>() returns an empty handle, as a normal result; chain, advisory   *)
(* counter and counts are left unchanged, and the call goes on without     *)
(* a node having to be put: holding the lock, its next step is enabled     *)
C15_ExhaustedPoolReturnsEmpty ==
    /\ [](\A t \in Threads :
            /\ (At(t, "get_body") /\ anchor_[frame[t].pool] = NULL) => ENABLED GetBody(t)
            /\ (C15_Exhausted(t) /\ pc[t] = "done") =>
                  /\ live[frame[t].l] /\ p_[frame[t].l] = NULL
                  /\ ~frame[t].threw
                  /\ Chain(frame[t].pool) = <<>> => avail_[frame[t].pool] = 0)
    /\ [][C15_Step]_vars

(* get<T>() on an empty pool, at a time the other pool holds a node, has   *)
(* returned an empty handle                                                *)
C15_Witness ==
    \E t \in Threads : \E q \in Pools :
        /\ C15_Exhausted(t) /\ pc[t] = "done" /\ q # frame[t].pool
        /\ Chain(q) # <<>> /\ Chain(frame[t].pool) = <<>>
        /\ live[frame[t].l] /\ p_[frame[t].l] = NULL

(* the nodes that were queued in the pool when its destructor was entered  *)
C16_WereQueued(t) ==
    {frame[t].pre.chain[frame[t].pool][i] : i \in 1..Len(frame[t].pre.chain[frame[t].pool])}

(* thread t is in, or has finished, the destructor of a pool               *)
C16_InDtor(t) == t \in active /\ frame[t].op = "pool_dtor"

(* a step of the destructor changes nothing of a node that was not queued  *)
(* in its pool                                                             *)
C16_Step ==
    \A t \in Threads :
        (C16_InDtor(t) /\ pc'[t] # pc[t]) =>
            \A n \in Objs \ C16_WereQueued(t) :
                /\ u_'[n] = u_[n] /\ refcnt_'[n] = refcnt_[n]
                /\ destroyed'[n] = destroyed[n]

(* C16: destroying a pool whose chain holds N nodes ends, having deleted   *)
(* exactly those N nodes, each once (a second delete would be undefined),  *)
(* and deletes or changes no node that is checked out or queued elsewhere  *)
C16_PoolDtorDeletesQueued ==
    /\ [](\A t \in Threads :
            C16_InDtor(t) =>
                /\ ~ub /\ ~aborted /\ ~frame[t].threw
                /\ \A n \in Objs : destroyed[n] => n \in C16_WereQueued(t)
                /\ \A h \in Handles : (live[h] /\ p_[h] # NULL) => ~destroyed[p_[h]]
                /\ pc[t] = "done" =>
                      /\ \A n \in C16_WereQueued(t) : destroyed[n]
                      /\ anchor_[frame[t].pool] = NULL
                      /\ avail_[frame[t].pool] = 0)
    /\ [][C16_Step]_vars
    /\ \A t \in Threads : C16_InDtor(t) ~> (pc[t] = "done")

(* the destructor of P has ended: the node that was queued in P is         *)
(* deleted, the node checked out of P and held by a handle is not          *)
C16_Witness ==
    \E n, m \in Objs :
        /\ C16_InDtor("t1") /\ pc["t1"] = "done"
        /\ C16_WereQueued("t1") = {n} /\ destroyed[n]
        /\ m # n /\ ~destroyed[m] /\ u_[m] = "P" /\ Aliases(m) > 0

(* what the handles alias after l.swap(r) is applied to the handles p      *)
C17_Swapped(p, l, r) == [h \in Handles |-> IF h = l THEN p[r] ELSE IF h = r THEN p[l] ELSE p[h]]

(* C17: swap() exchanges what the two handles alias, changes no count and  *)
(* fires no hook, whether they alias different objects, the same object    *)
(* or nothing; swapping the result once more gives the handles back        *)
C17_SwapExchanges ==
    \A t \in Threads :
        AtDone(t, {"swap"}) =>
            LET l == frame[t].l
                r == frame[t].r
                pre == frame[t].pre
            IN  /\ p_ = C17_Swapped(pre.p, l, r)
                /\ C17_Swapped(p_, l, r) = pre.p
                /\ refcnt_ = pre.cnt
                /\ live = pre.live
                /\ frame[t].fired = {} /\ ~frame[t].threw
                /\ \A q \in Pools : Chain(q) = pre.chain[q]

(* two handles that aliased different objects have been swapped            *)
C17_Witness ==
    \E t \in Threads :
        /\ AtDone(t, {"swap"}) /\ frame[t].l # frame[t].r
        /\ frame[t].pre.p[frame[t].l] \in Objs /\ frame[t].pre.p[frame[t].r] \in Objs
        /\ frame[t].pre.p[frame[t].l] # frame[t].pre.p[frame[t].r]
        /\ p_[frame[t].l] = frame[t].pre.p[frame[t].r]

(* the case of C18: thread t is executing, or has finished, h1 = h2 for    *)
(* two distinct handles that each hold a share of the same object x        *)
C18_Case(t) ==
    /\ t \in active /\ frame[t].op = "copy_assign" /\ pc[t] # "idle"
    /\ LET l == frame[t].l
           r == frame[t].r
           pre == frame[t].pre
       IN  /\ l # r
           /\ pre.p[l] # NULL /\ pre.p[l] = pre.p[r]
           /\ pre.p[l] \notin pre.gone
           /\ pre.cnt[pre.p[l]] >= 2

(* C18: during h1 = h2, for two handles on the same object, the object's   *)
(* count is never 0 and the hook is not invoked, whichever of increment    *)
(* and decrement comes first; at the end counts and handles are as before  *)
C18_SameObjectAssignKeepsCount ==
    \A t \in Threads :
        C18_Case(t) =>
            LET x == frame[t].pre.p[frame[t].l]
            IN  /\ refcnt_[x] >= 1
                /\ pc[t] # "unmanage" /\ frame[t].fired = {} /\ ~frame[t].threw
                /\ ~destroyed[x] /\ ~Queued(x)
                /\ pc[t] = "done" => (refcnt_ = frame[t].pre.cnt /\ p_ = frame[t].pre.p)

(* decrement first: between the decrement and the increment the count of   *)
(* an object held by exactly the two handles is 1                          *)
C18_Witness ==
    \E t \in Threads :
        /\ C18_Case(t) /\ pc[t] = "asg2_inc"
        /\ frame[t].pre.cnt[frame[t].pre.p[frame[t].l]] = 2
        /\ refcnt_[frame[t].pre.p[frame[t].l]] = 1

(* how often node n occurs in the chains of all pools                      *)
C19_Occurrences(n) ==
    Cardinality({<<q, i>> \in Pools \X (1..(Cardinality(Objs) + 1)) :
                    i <= Len(Chain(q)) /\ Chain(q)[i] = n})

(* the get<T>() calls that have detached n and not yet wrapped it          *)
C19_Detached(n) ==
    {t \in active : frame[t].op = "get" /\ frame[t].obj = n
                      /\ pc[t] \in {"get_unlock", "get_wrap"}}

(* the handles being destroyed: their share has been given up already      *)
C19_Dying == {frame[t].l : t \in {s \in active : frame[s].op = "dtor" /\ pc[s] # "idle"}}

(* the handles that hold n                                                 *)
C19_Holding(n) == {h \in Handles \ C19_Dying : live[h] /\ p_[h] = n}

(* the release hooks that are bringing n back and have not linked it yet   *)
C19_Returning(n) ==
    {t \in active : frame[t].op = "dtor" /\ frame[t].obj = n /\ frame[t].rv = 1
                      /\ pc[t] \in {"unmanage", "put_lock", "put_body"}}

(* the threads between lock and unlock of pool q                           *)
C19_InCritical(q) ==
    {t \in active : frame[t].pool = q
                      /\ pc[t] \in {"put_body", "put_unlock", "get_body", "get_unlock"}}

(* C19: while threads call get<T>() and put() and release hooks return     *)
(* nodes, at most one thread is between lock and unlock of a pool, and     *)
(* every node that was put is in exactly one place: once in one chain      *)
(* (reachable from its head), or detached by one get<T>(), or held by      *)
(* handles, or on its way back in one hook.  So no node is handed out      *)
(* twice and no queued node is lost.                                       *)
C19_NoDoubleHandoutNoLoss ==
    /\ ~ub /\ ~aborted
    /\ \A q \in Pools :
          /\ Cardinality(C19_InCritical(q)) <= 1
          /\ \A t \in C19_InCritical(q) : mtx_[q] = t
    /\ \A n \in Objs :
          u_[n] # UNINIT =>
              C19_Occurrences(n) + Cardinality(C19_Detached(n))
                + Cardinality(C19_Holding(n)) + Cardinality(C19_Returning(n)) = 1

(* one thread has detached a node from a pool and the other is waiting     *)
(* for the lock of the same pool to take a node, while a node is queued    *)
C19_Witness ==
    \E t, s \in Threads :
        /\ t # s /\ frame[t].pool = frame[s].pool
        /\ pc[t] = "get_unlock" /\ frame[t].obj \in Objs
        /\ pc[s] = "get_lock" /\ frame[s].op = "get"
        /\ anchor_[frame[t].pool] # NULL

(* the calls of put() by the program that have not linked their node yet   *)
(* and will: its count is 0                                                *)
C20_Pending(n) ==
    {t \in active : frame[t].op = "put" /\ frame[t].obj = n /\ refcnt_[n] = 0
                      /\ pc[t] \in {"put_lock", "put_body"}}

(* in how many places node n is at once                                    *)
C20_Places(n) ==
    C19_Occurrences(n) + Cardinality(C19_Detached(n)) + Cardinality(C19_Holding(n))
      + Cardinality(C19_Returning(n)) + Cardinality(C20_Pending(n))

(* every chain is finite and acyclic with every node at most once in all   *)
(* chains, and the counter of an unlocked pool is the length of its chain  *)
C20_WellFormed ==
    /\ \A n \in Objs : C19_Occurrences(n) <= 1
    /\ \A q \in Pools : mtx_[q] = NULL => avail_[q] = Len(Chain(q))

(* C20 as stated: after put() calls on nodes with count 0, get<T>() calls  *)
(* and handle releases the chains are well formed                          *)
C20_ChainAcyclicAfterPuts == C20_WellFormed

(* well formed, and the nodes are where the discipline has them: a node    *)
(* that entered a pool is in exactly one place, any other in at most one   *)
C20_Sound ==
    /\ C20_WellFormed
    /\ ~ub /\ ~aborted
    /\ \A n \in Objs : C20_Places(n) <= 1 /\ (u_[n] # UNINIT => C20_Places(n) = 1)
    /\ \A n \in Objs : C19_Occurrences(n) = 1 => refcnt_[n] = 0

(* the program calls put() on a node with count 0 that is queued already   *)
(* (or is in any other place of the discipline)                            *)
C20_PutOfQueued ==
    \E t \in Threads :
        /\ pc[t] = "idle" /\ pc'[t] = "put_lock" /\ frame'[t].op = "put"
        /\ refcnt_[frame'[t].obj] = 0
        /\ C20_Places(frame'[t].obj) >= 1

(* C20 amended: as long as every put() is called on a node whose count is  *)
(* 0 and which is not queued in a chain already, every step of put(),      *)
(* get<T>() and of a handle release keeps the chains finite, acyclic and   *)
(* free of repeated nodes, and the counter of an unlocked pool equal to    *)
(* the length of its chain                                                 *)
C20_ChainAcyclicAfterDisjointPuts ==
    /\ C20_Sound
    /\ [][(C20_Sound /\ ~C20_PutOfQueued) => C20_Sound']_vars

(* put() has linked a node that was not queued ahead of the other node,    *)
(* and the chain of two is well formed                                     *)
C20_Witness ==
    \E t \in Threads :
        /\ frame[t].op = "put" /\ pc[t] = "done" /\ ~frame[t].threw
        /\ Len(frame[t].pre.chain[frame[t].pool]) = 1
        /\ frame[t].obj # frame[t].pre.chain[frame[t].pool][1]
        /\ Chain(frame[t].pool) = <<frame[t].obj>> \o frame[t].pre.chain[frame[t].pool]
        /\ avail_[frame[t].pool] = 2
        /\ C20_Sound

====
